---- MODULE Spec2Model ----
(***************************************************************************)
(* EcoQuest backend (src/Backend-EcoQuest/main.py): the daily quota gate,  *)
(* the points ledger and the endpoints that sequence them, over the one    *)
(* SQLite connection and the one cursor that every request handler shares. *)
(*                                                                         *)
(* Granularity: every cursor.execute(), cursor.fetchone(), read of         *)
(* cursor.rowcount, conn.commit() and get_today_string() is one atomic     *)
(* step of the request that makes it; FastAPI runs the `def` handlers in a *)
(* thread pool, so steps of different requests interleave freely.          *)
(***************************************************************************)
EXTENDS Integers, Sequences, FiniteSets, TLC

\* ------------------------------------------------------------------ bounds
\* Request handlers that may be in progress at the same time.
MaxReq == 2
\* Last calendar day of the model (days are 0..MaxDay).
MaxDay == 1
\* Calls a test driver fires beyond limit(k) (spec section 8: limit(k)+5).
ExtraCalls == 5
\* Requests per behaviour that starts from a day already under way.
MaxCalls == 2

\* --------------------------------------------------------------- constants
Users == {"alice", "bob"}
ActionKinds == {"aqi_checks", "forecast_checks", "carbon_calculations"}
\* An action_type no endpoint passes, for direct calls of the gate.
InvalidKind == "unknown"

AqiLimit == 5
ForecastLimit == 3
CarbonLimit == 10
DAILY_LIMITS ==
  [k \in ActionKinds |->
     CASE k = "aqi_checks" -> AqiLimit
       [] k = "forecast_checks" -> ForecastLimit
       [] OTHER -> CarbonLimit]

AqiPoints == 10
ForecastPoints == 5
CarbonPoints == 15
\* The fixed amount each endpoint adds: lines 315, 595, 674.
POINTS ==
  [k \in ActionKinds |->
     CASE k = "aqi_checks" -> AqiPoints
       [] k = "forecast_checks" -> ForecastPoints
       [] OTHER -> CarbonPoints]

\* Column of a counter in a daily_actions row (aqi, forecast, carbon).
Col(k) ==
  CASE k = "aqi_checks" -> 1
    [] k = "forecast_checks" -> 2
    [] OTHER -> 3

Days == 0..MaxDay
Slots == 1..MaxReq
\* The slot that serves the requests when they come one after another.
FirstSlot == {1}
Deltas == {-20, 5}

\* A row is a tuple of integers; <<>> stands for "no row" / None.
NoRow == <<>>
\* A record created with one check already counted.
ZeroRowCounted == <<1, 1, 1>>
\* lines 80-81: VALUES (?, ?, 0, 0, 0).
ZeroRow == <<0, 0, 0>>

VARIABLES
  day,        \* the server's calendar day (what get_today_string() returns)
  db,         \* the tables as every statement on the shared connection sees them
  committed,  \* the tables as of the last conn.commit()
  cursor,     \* the shared cursor: rowcount and the rows not yet fetched
  req,        \* the request handler running in each slot, with its locals
  scope,      \* the users and action kinds this behaviour's requests are about
  tally,      \* outcomes of the direct check_and_increment_action calls, and
              \* the collaborator calls started for (user, kind, day 0)
  budget      \* requests the clients still send in this behaviour

vars == <<day, db, committed, cursor, req, scope, tally, budget>>

\* ---------------------------------------------------------------- helpers
IdleReq ==
  [op |-> "none", pc |-> "idle", username |-> "", action_type |-> "",
   activity_ok |-> TRUE, today |-> 0, gda_today |-> 0, daily_actions |-> NoRow,
   new_count |-> 0, data |-> "", row |-> NoRow, new_points |-> 0, amount |-> 0,
   remaining_checks |-> 0, status |-> "", called |-> FALSE, board |-> <<>>]

Running(r) == req[r].pc \notin {"idle", "done"}

\* A new request goes to the first handler slot that is not running one.
Free(r) == ~Running(r) /\ \A s \in Slots : s < r => Running(s)

\* What a SELECT by primary key leaves on the cursor.
Selected(row) == IF row = NoRow THEN <<>> ELSE <<row>>

\* cursor.execute of a SELECT / of an INSERT, UPDATE or REPLACE.
AfterQuery(rows) == [rowcount |-> -1, rows |-> rows]
AfterDml(n) == [rowcount |-> n, rows |-> <<>>]

\* A commit that leaves the transaction open.
CommitSkipped(work, last) == last

\* conn.commit() (lines 83, 135, 320, 701, 721): the working tables become
\* the committed ones and the transaction ends.
Commit(work, last) == work

\* The limit test with > for >=.
LimitExceededOffByOne(count, k) == count > DAILY_LIMITS[k]

\* line 110: the limit test of the gate.
LimitExceeded(count, k) == count >= DAILY_LIMITS[k]

\* lines 118-122: SET {action_type} = {action_type} + 1.
Incremented(row, k) == [row EXCEPT ![Col(k)] = @ + 1]

\* lines 126-133: INSERT OR REPLACE with 1 for action_type and 0 elsewhere.
Recreated(k) == [i \in 1..3 |-> IF i = Col(k) THEN 1 ELSE 0]

\* line 138: the count the gate returns.
NewCount(daily_actions, k) == daily_actions[Col(k)] + 1

\* The direct caller of check_and_increment_action records the outcome.
Tallied(r, status) ==
  IF req[r].op # "gate" THEN tally
  ELSE CASE status = "returned" ->
              [tally EXCEPT !.ok = @ + 1]
         [] status = "rejected429" -> [tally EXCEPT !.rej = @ + 1]
         [] OTHER -> [tally EXCEPT !.err = @ + 1]

\* A handler that records its outcome and does not return.
Unfinished(r, status) == [req[r] EXCEPT !.status = status]

\* A finished request keeps what it was asked, the dates it read, whether it
\* called the collaborator and its answer; its other locals are gone.
Finish(r, status) ==
  [IdleReq EXCEPT !.pc = "done", !.status = status, !.op = req[r].op,
                  !.username = req[r].username,
                  !.action_type = req[r].action_type,
                  !.activity_ok = req[r].activity_ok,
                  !.today = req[r].today, !.gda_today = req[r].gda_today,
                  !.called = req[r].called]


\* ------------------------------------------------------------------- Init
EmptyDb ==
  [users |-> [u \in Users |-> NoRow],
   daily |-> [key \in Users \X Days |-> NoRow]]

\* Every check the tables count on day 0 was followed by one collaborator
\* call (lines 303-308): the calls already started when a behaviour begins.
FetchesBefore(tables, users, kinds) ==
  LET u == CHOOSE x \in users : TRUE
      k == CHOOSE x \in kinds : TRUE
  IN IF tables.daily[<<u, 0>>] = NoRow THEN 0 ELSE tables.daily[<<u, 0>>][Col(k)]

InitWith(users, kinds, tables, n) ==
  /\ day = 0
  /\ db = tables
  /\ committed = tables
  /\ cursor = AfterDml(-1)
  /\ req = [r \in Slots |-> IdleReq]
  /\ scope = [users |-> users, kinds |-> kinds]
  /\ tally = [ok |-> 0, rej |-> 0, err |-> 0,
              fetches |-> FetchesBefore(tables, users, kinds)]
  /\ budget = n

\* --------------------------------------------- check_and_increment_action
\* A direct call check_and_increment_action(u, k) with a valid kind:
\* line 101 passes, line 104 reads today's date.
StartGateCall(r) ==
  \E u \in scope.users, k \in scope.kinds :
    /\ Free(r)
    /\ budget > 0
    /\ budget' = budget - 1
    /\ req' = [req EXCEPT ![r] =
                 [IdleReq EXCEPT !.op = "gate", !.pc = "gda_today",
                                 !.username = u, !.action_type = k,
                                 !.today = day]]
    /\ UNCHANGED <<day, db, committed, cursor, scope, tally>>

\* The tables after a call with an invalid kind, had the record of (u, d)
\* been created before the kind was looked at.
AfterInvalidActionRecorded(tables, u, d) ==
  [tables EXCEPT !.daily[<<u, d>>] = IF @ = NoRow THEN ZeroRow ELSE @]

\* lines 101-102: the raise comes before any statement: the tables stay.
AfterInvalidAction(tables, u, d) == tables

\* A direct call check_and_increment_action(u, k) with k not in DAILY_LIMITS:
\* line 101 raises HTTPException(400).
InvalidGateCall(r) ==
  \E u \in scope.users :
    /\ Free(r)
    /\ budget > 0
    /\ budget' = budget - 1
    /\ req' = [req EXCEPT ![r] =
                 [IdleReq EXCEPT !.op = "gate", !.pc = "done",
                                 !.username = u, !.action_type = InvalidKind,
                                 !.status = "invalid400"]]
    /\ db' = AfterInvalidAction(db, u, day)
    /\ tally' = [tally EXCEPT !.err = @ + 1]
    /\ UNCHANGED <<day, committed, cursor, scope>>

\* line 76: get_daily_actions reads the date again.
get_daily_actions_today(r) ==
  /\ req[r].pc = "gda_today"
  /\ req' = [req EXCEPT ![r].gda_today = day, ![r].pc = "gda_insert"]
  /\ UNCHANGED <<day, db, committed, cursor, scope, tally, budget>>

\* lines 79-82: INSERT OR IGNORE of the zero record.
get_daily_actions_insert(r) ==
  LET key == <<req[r].username, req[r].gda_today>> IN
  /\ req[r].pc = "gda_insert"
  /\ IF db.daily[key] = NoRow
       THEN /\ db' = [db EXCEPT !.daily[key] = ZeroRow]
            /\ cursor' = AfterDml(1)
       ELSE /\ db' = db
            /\ cursor' = AfterDml(0)
  /\ req' = [req EXCEPT ![r].pc = "gda_commit"]
  /\ UNCHANGED <<day, committed, scope, tally, budget>>

\* line 83: conn.commit() on the shared connection.
get_daily_actions_commit(r) ==
  /\ req[r].pc = "gda_commit"
  /\ committed' = Commit(db, committed)
  /\ req' = [req EXCEPT ![r].pc = "gda_select"]
  /\ UNCHANGED <<day, db, cursor, scope, tally, budget>>

\* lines 86-90: SELECT of the three counters.
get_daily_actions_select(r) ==
  LET key == <<req[r].username, req[r].gda_today>> IN
  /\ req[r].pc = "gda_select"
  /\ cursor' = AfterQuery(Selected(db.daily[key]))
  /\ req' = [req EXCEPT ![r].pc = "gda_fetch"]
  /\ UNCHANGED <<day, db, committed, scope, tally, budget>>

\* lines 92-97 and the limit test of lines 110-114: cursor.fetchone() takes
\* whatever row the shared cursor holds; None or a row with fewer than three
\* columns raises (TypeError / IndexError), which nothing catches. Called
\* from get_user (lines 692, 702) the dict is the response's daily_actions.
get_daily_actions_fetchone(r) ==
  LET row == IF cursor.rows = <<>> THEN NoRow ELSE Head(cursor.rows)
      k == req[r].action_type
      status == IF Len(row) < 3 THEN "crashed500"
                ELSE IF req[r].op = "get_user" THEN "served"
                ELSE IF LimitExceeded(row[Col(k)], k) THEN "rejected429"
                ELSE "pass"
  IN
  /\ req[r].pc = "gda_fetch"
  /\ cursor' = [cursor EXCEPT !.rows = IF @ = <<>> THEN <<>> ELSE Tail(@)]
  /\ CASE status = "pass" ->
            /\ req' = [req EXCEPT ![r].daily_actions = row,
                                  ![r].pc = "cai_update"]
            /\ tally' = tally
       [] status = "served" ->
            /\ req' = [req EXCEPT ![r] =
                         [Finish(r, status) EXCEPT
                            !.daily_actions = row,
                            !.new_points = req[r].new_points]]
            /\ tally' = tally
       [] OTHER ->
            /\ req' = [req EXCEPT ![r] = Finish(r, status)]
            /\ tally' = Tallied(r, status)
  /\ UNCHANGED <<day, db, committed, scope, budget>>

\* lines 118-122: UPDATE ... WHERE username=? AND date=today (line 104's date).
check_and_increment_action_update(r) ==
  LET key == <<req[r].username, req[r].today>> IN
  /\ req[r].pc = "cai_update"
  /\ IF db.daily[key] = NoRow
       THEN /\ db' = db
            /\ cursor' = AfterDml(0)
       ELSE /\ db' = [db EXCEPT !.daily[key] =
                        Incremented(@, req[r].action_type)]
            /\ cursor' = AfterDml(1)
  /\ req' = [req EXCEPT ![r].pc = "cai_rowcount"]
  /\ UNCHANGED <<day, committed, scope, tally, budget>>

\* line 124: the read of cursor.rowcount, of the shared cursor.
check_and_increment_action_rowcount(r) ==
  /\ req[r].pc = "cai_rowcount"
  /\ req' = [req EXCEPT ![r].pc =
               IF cursor.rowcount = 0 THEN "cai_replace" ELSE "cai_commit"]
  /\ UNCHANGED <<day, db, committed, cursor, scope, tally, budget>>

\* lines 126-133: INSERT OR REPLACE of the whole record.
check_and_increment_action_replace(r) ==
  LET key == <<req[r].username, req[r].today>> IN
  /\ req[r].pc = "cai_replace"
  /\ db' = [db EXCEPT !.daily[key] = Recreated(req[r].action_type)]
  /\ cursor' = AfterDml(1)
  /\ req' = [req EXCEPT ![r].pc = "cai_commit"]
  /\ UNCHANGED <<day, committed, scope, tally, budget>>

\* lines 135-138: conn.commit() and return daily_actions[action_type] + 1.
check_and_increment_action_commit(r) ==
  LET n == NewCount(req[r].daily_actions, req[r].action_type) IN
  /\ req[r].pc = "cai_commit"
  /\ committed' = Commit(db, committed)
  /\ IF req[r].op = "gate"
       THEN req' = [req EXCEPT ![r] =
                      [Finish(r, "returned") EXCEPT !.new_count = n]]
       ELSE req' = [req EXCEPT ![r].new_count = n, ![r].pc = "fetch"]
  /\ tally' = Tallied(r, "returned")
  /\ UNCHANGED <<day, db, cursor, scope, budget>>

\* lines 140-142: a statement of the try block (the UPDATE, the INSERT OR
\* REPLACE or the commit) raises; the handler rolls the shared connection
\* back to its last commit and raises HTTPException(500). A statement that
\* raises has changed nothing and leaves the cursor without a result.
check_and_increment_action_except(r) ==
  /\ req[r].pc \in {"cai_update", "cai_replace", "cai_commit"}
  /\ db' = committed
  /\ cursor' = IF req[r].pc = "cai_commit" THEN cursor ELSE AfterDml(-1)
  /\ req' = [req EXCEPT ![r] = Finish(r, "crashed500")]
  /\ tally' = Tallied(r, "crashed500")
  /\ UNCHANGED <<day, committed, scope, budget>>

\* Every step inside check_and_increment_action after its entry.
GateStep(r) ==
  \/ get_daily_actions_today(r)
  \/ get_daily_actions_insert(r)
  \/ get_daily_actions_commit(r)
  \/ get_daily_actions_select(r)
  \/ get_daily_actions_fetchone(r)
  \/ check_and_increment_action_update(r)
  \/ check_and_increment_action_rowcount(r)
  \/ check_and_increment_action_replace(r)
  \/ check_and_increment_action_commit(r)

\* -------------------------------------- /air_quality, /forecast, /carbon
Endpoint(k) ==
  CASE k = "aqi_checks" -> "air_quality"
    [] k = "forecast_checks" -> "forecast"
    [] OTHER -> "carbon"

\* line 323 (603, 682): remaining_checks of a completed response.
RemainingChecks(k, new_count) == DAILY_LIMITS[k] - new_count

\* lines 315/318 (595/598, 674/677, 716/719): the balance the handler writes.
NewPoints(row, amount) == IF row = NoRow THEN amount ELSE row[1] + amount

\* The handler is entered and calls check_and_increment_action with its own
\* kind (lines 303, 582, 662): line 101 passes, line 104 reads the date.
\* /carbon also takes an activity, which ACTIVITY_MAP holds or not.
StartEndpoint(r) ==
  \E u \in scope.users, k \in scope.kinds, a \in BOOLEAN :
    /\ Free(r)
    /\ budget > 0
    /\ budget' = budget - 1
    /\ k # "carbon_calculations" => a
    /\ req' = [req EXCEPT ![r] =
                 [IdleReq EXCEPT !.op = Endpoint(k), !.pc = "gda_today",
                                 !.username = u, !.action_type = k,
                                 !.activity_ok = a, !.today = day]]
    /\ UNCHANGED <<day, db, committed, cursor, scope, tally>>

\* lines 308, 588, 667: the collaborator is called. get_carbon_estimate
\* returns an error payload at lines 630-631, before any request is sent,
\* when the activity is not in ACTIVITY_MAP.
endpoint_fetch_call(r) ==
  /\ req[r].pc = "fetch"
  /\ IF req[r].activity_ok
       THEN /\ req' = [req EXCEPT ![r].called = TRUE, ![r].pc = "fetching"]
            /\ tally' = IF req[r].today = 0
                          THEN [tally EXCEPT !.fetches = @ + 1]
                          ELSE tally
       ELSE /\ req' = [req EXCEPT ![r] =
                         [Finish(r, "failed") EXCEPT
                            !.data = "error", !.new_count = req[r].new_count]]
            /\ tally' = tally
  /\ UNCHANGED <<day, db, committed, cursor, scope, budget>>

\* The collaborator answers with a result or an error payload (a timeout is
\* an error payload too); lines 311, 591, 670 test for "error".
endpoint_fetch_return(r) ==
  \E data \in {"ok", "error"} :
    /\ req[r].pc = "fetching"
    /\ IF data = "ok"
         THEN req' = [req EXCEPT ![r].data = data, ![r].pc = "pts_select",
                                 ![r].amount = POINTS[req[r].action_type]]
         ELSE req' = [req EXCEPT ![r] =
                        [Finish(r, "failed") EXCEPT
                           !.data = data,
                           !.new_count = req[r].new_count]]
    /\ UNCHANGED <<day, db, committed, cursor, scope, tally, budget>>

\* ------------------------------------------------ points: award and adjust
\* /update_points is entered (line 712); nothing gates it.
StartUpdatePoints(r) ==
  \E u \in scope.users, delta \in Deltas :
    /\ Free(r)
    /\ budget > 0
    /\ req' = [req EXCEPT ![r] =
                 [IdleReq EXCEPT !.op = "update_points", !.pc = "pts_select",
                                 !.username = u, !.amount = delta]]
    /\ budget' = budget - 1
    /\ UNCHANGED <<day, db, committed, cursor, scope, tally>>

\* lines 312, 592, 671, 713: SELECT points FROM users WHERE username=?.
points_select(r) ==
  /\ req[r].pc = "pts_select"
  /\ cursor' = AfterQuery(Selected(db.users[req[r].username]))
  /\ req' = [req EXCEPT ![r].pc = "pts_fetch"]
  /\ UNCHANGED <<day, db, committed, scope, tally, budget>>

\* lines 313-318 (593-598, 672-677, 714-719): cursor.fetchone() on the shared
\* cursor, then new_points from row[0], whatever row that is; for a row of
\* the leaderboard query (two columns) row[0] is a username and the addition
\* raises TypeError.
points_fetchone(r) ==
  LET row == IF cursor.rows = <<>> THEN NoRow ELSE Head(cursor.rows) IN
  /\ req[r].pc = "pts_fetch"
  /\ cursor' = [cursor EXCEPT !.rows = IF @ = <<>> THEN <<>> ELSE Tail(@)]
  /\ IF Len(row) = 2
       THEN req' = [req EXCEPT ![r] = Finish(r, "crashed500")]
       ELSE req' = [req EXCEPT ![r].row = row,
                              ![r].new_points = NewPoints(row, req[r].amount),
                              ![r].pc = "pts_write"]
  /\ UNCHANGED <<day, db, committed, scope, tally, budget>>

\* lines 316/319 (596/599, 675/678, 717/720): UPDATE when a row was fetched,
\* INSERT otherwise; the INSERT of an existing username violates the primary
\* key and raises, which nothing catches.
points_write(r) ==
  LET u == req[r].username IN
  /\ req[r].pc = "pts_write"
  /\ IF req[r].row # NoRow
       THEN /\ req' = [req EXCEPT ![r].pc = "pts_commit"]
            /\ IF db.users[u] = NoRow
                 THEN db' = db /\ cursor' = AfterDml(0)
                 ELSE /\ db' = [db EXCEPT !.users[u] = <<req[r].new_points>>]
                      /\ cursor' = AfterDml(1)
       ELSE IF db.users[u] = NoRow
         THEN /\ req' = [req EXCEPT ![r].pc = "pts_commit"]
              /\ db' = [db EXCEPT !.users[u] = <<req[r].new_points>>]
              /\ cursor' = AfterDml(1)
         ELSE /\ req' = [req EXCEPT ![r] = Finish(r, "crashed500")]
              /\ db' = db
              /\ cursor' = AfterDml(-1)
  /\ UNCHANGED <<day, committed, scope, tally, budget>>

\* lines 320-325 (600-605, 679-684, 721-722): conn.commit() and the response.
points_commit(r) ==
  /\ req[r].pc = "pts_commit"
  /\ committed' = Commit(db, committed)
  /\ IF req[r].op = "update_points"
       THEN req' = [req EXCEPT ![r] =
                      [Finish(r, "adjusted") EXCEPT
                         !.amount = req[r].amount,
                         !.new_points = req[r].new_points]]
       ELSE req' = [req EXCEPT ![r] =
                      [Finish(r, "completed") EXCEPT
                         !.data = req[r].data,
                         !.amount = req[r].amount,
                         !.new_points = req[r].new_points,
                         !.new_count = req[r].new_count,
                         !.remaining_checks =
                            RemainingChecks(req[r].action_type,
                                            req[r].new_count)]]
  /\ UNCHANGED <<day, db, cursor, scope, tally, budget>>

\* lines 312-320 (592-600, 671-679, 713-721): a statement of the points
\* mutation (the SELECT, the UPDATE or INSERT, or the commit) raises; no try
\* block surrounds it, so the exception leaves the handler (a 500) and the
\* connection keeps whatever the request has written so far.
points_storage_error(r) ==
  /\ req[r].pc \in {"pts_select", "pts_write", "pts_commit"}
  /\ cursor' = IF req[r].pc = "pts_commit" THEN cursor ELSE AfterDml(-1)
  /\ req' = [req EXCEPT ![r] = Finish(r, "crashed500")]
  /\ UNCHANGED <<day, db, committed, scope, tally, budget>>

\* ------------------------------------------------------- /user/{username}
\* line 689: get_user is entered.
StartGetUser(r) ==
  \E u \in scope.users :
    /\ Free(r)
    /\ budget > 0
    /\ budget' = budget - 1
    /\ req' = [req EXCEPT ![r] =
                 [IdleReq EXCEPT !.op = "get_user", !.pc = "usr_select",
                                 !.username = u]]
    /\ UNCHANGED <<day, db, committed, cursor, scope, tally>>

\* line 689: SELECT points FROM users WHERE username=?.
get_user_select(r) ==
  /\ req[r].pc = "usr_select"
  /\ cursor' = AfterQuery(Selected(db.users[req[r].username]))
  /\ req' = [req EXCEPT ![r].pc = "usr_fetch"]
  /\ UNCHANGED <<day, db, committed, scope, tally, budget>>

\* lines 690-691 and 700: cursor.fetchone() on the shared cursor; with a row
\* the response's points are row[0], without one they are 0. (For a row of
\* the leaderboard query row[0] is a username: the response then carries no
\* number, and `row` tells so.)
get_user_fetchone(r) ==
  LET row == IF cursor.rows = <<>> THEN NoRow ELSE Head(cursor.rows) IN
  /\ req[r].pc = "usr_fetch"
  /\ cursor' = [cursor EXCEPT !.rows = IF @ = <<>> THEN <<>> ELSE Tail(@)]
  /\ req' = [req EXCEPT ![r].row = row,
                        ![r].new_points = IF Len(row) = 2 THEN 0
                                          ELSE NewPoints(row, 0),
                        ![r].pc = IF row = NoRow THEN "usr_insert"
                                  ELSE "gda_today"]
  /\ UNCHANGED <<day, db, committed, scope, tally, budget>>

\* line 700: INSERT INTO users (username, points) VALUES (?, 0); for an
\* existing username it violates the primary key and raises.
get_user_insert(r) ==
  LET u == req[r].username IN
  /\ req[r].pc = "usr_insert"
  /\ IF db.users[u] = NoRow
       THEN /\ req' = [req EXCEPT ![r].pc = "usr_commit"]
            /\ db' = [db EXCEPT !.users[u] = <<0>>]
            /\ cursor' = AfterDml(1)
       ELSE /\ req' = [req EXCEPT ![r] = Finish(r, "crashed500")]
            /\ db' = db
            /\ cursor' = AfterDml(-1)
  /\ UNCHANGED <<day, committed, scope, tally, budget>>

\* line 701: conn.commit(); get_daily_actions follows (line 702).
get_user_commit(r) ==
  /\ req[r].pc = "usr_commit"
  /\ committed' = Commit(db, committed)
  /\ req' = [req EXCEPT ![r].pc = "gda_today"]
  /\ UNCHANGED <<day, db, cursor, scope, tally, budget>>

UserStep(r) ==
  \/ get_user_select(r)
  \/ get_user_fetchone(r)
  \/ get_user_insert(r)
  \/ get_user_commit(r)

\* ------------------------------------------------------------ /leaderboard
\* line 727: LIMIT 10.
LeaderboardLimit == 10

\* line 727: the rows (username, points) of the users table ORDER BY points
\* DESC, every order of equal balances being possible, LIMIT 10.
LeaderboardRows(tables) ==
  LET listed == {u \in Users : tables.users[u] # NoRow}
      n == Cardinality(listed)
      shown == IF n < LeaderboardLimit THEN n ELSE LeaderboardLimit
      orders == {f \in [1..n -> listed] :
                   /\ \A i, j \in 1..n : i # j => f[i] # f[j]
                   /\ \A i \in 1..(n - 1) :
                        tables.users[f[i]][1] >= tables.users[f[i + 1]][1]}
  IN {[i \in 1..shown |-> <<f[i], tables.users[f[i]][1]>>] : f \in orders}

\* line 726: leaderboard is entered.
StartLeaderboard(r) ==
  /\ Free(r)
  /\ budget > 0
  /\ budget' = budget - 1
  /\ req' = [req EXCEPT ![r] =
               [IdleReq EXCEPT !.op = "leaderboard", !.pc = "lb_select"]]
  /\ UNCHANGED <<day, db, committed, cursor, scope, tally>>

\* line 727: cursor.execute of the SELECT.
leaderboard_select(r) ==
  \E rows \in LeaderboardRows(db) :
    /\ req[r].pc = "lb_select"
    /\ cursor' = AfterQuery(rows)
    /\ req' = [req EXCEPT ![r].pc = "lb_fetchall"]
    /\ UNCHANGED <<day, db, committed, scope, tally, budget>>

\* lines 728-729: cursor.fetchall() takes every row the shared cursor still
\* holds; the response is built from r[0] and r[1] of each, and a row with
\* one column raises IndexError.
leaderboard_fetchall(r) ==
  LET rows == cursor.rows IN
  /\ req[r].pc = "lb_fetchall"
  /\ cursor' = [cursor EXCEPT !.rows = <<>>]
  /\ IF \E i \in 1..Len(rows) : Len(rows[i]) < 2
       THEN req' = [req EXCEPT ![r] = Finish(r, "crashed500")]
       ELSE req' = [req EXCEPT ![r] =
                      [Finish(r, "listed") EXCEPT
                         !.board = [i \in 1..Len(rows) |->
                                      <<rows[i][1], rows[i][2]>>]]]
  /\ UNCHANGED <<day, db, committed, scope, tally, budget>>

BoardStep(r) == leaderboard_select(r) \/ leaderboard_fetchall(r)

EndpointStep(r) == endpoint_fetch_call(r) \/ endpoint_fetch_return(r)

PointsStep(r) ==
  \/ points_select(r)
  \/ points_fetchone(r)
  \/ points_write(r)
  \/ points_commit(r)

\* The calendar day changes.
Midnight ==
  /\ day < MaxDay
  /\ day' = day + 1
  /\ UNCHANGED <<db, committed, cursor, req, scope, tally, budget>>

\* --------------------------------------------------------- specifications
NoneRunning == \A s \in Slots : ~Running(s)

\* A fresh database; one user and one action kind per behaviour, and as many
\* requests as the kind's limit plus ExtraCalls.
InitOne ==
  \E k \in ActionKinds :
    InitWith({"alice"}, {k}, EmptyDb, DAILY_LIMITS[k] + ExtraCalls)

\* The tables after c completed requests of kind k by user u on day 0.
TablesAfter(u, k, c) ==
  IF c = 0 THEN EmptyDb
  ELSE [users |-> [EmptyDb.users EXCEPT ![u] = <<c * POINTS[k]>>],
        daily |-> [EmptyDb.daily EXCEPT ![<<u, 0>>] =
                     [i \in 1..3 |-> IF i = Col(k) THEN c ELSE 0]]]

\* A day already under way: no request yet, one request left before the
\* limit, or the limit reached; MaxCalls more requests.
InitMidDay ==
  \E k \in ActionKinds : \E c \in {0, DAILY_LIMITS[k] - 1, DAILY_LIMITS[k]} :
    InitWith({"alice"}, {k}, TablesAfter("alice", k, c), MaxCalls)

\* Concurrent direct calls of the gate for one (user, kind, day).
NextGate == \E r \in Slots : StartGateCall(r) \/ GateStep(r)
SpecGate == InitOne /\ [][NextGate]_vars

\* The same calls, one after another.
NextGateSeq ==
  \/ \E r \in FirstSlot : (NoneRunning /\ StartGateCall(r)) \/ GateStep(r)
  \/ Midnight
SpecGateSeq == InitOne /\ [][NextGateSeq]_vars

\* Concurrent requests to the three gated endpoints and to /update_points.
Next ==
  \E r \in Slots :
    \/ StartEndpoint(r)
    \/ StartUpdatePoints(r)
    \/ GateStep(r)
    \/ EndpointStep(r)
    \/ PointsStep(r)
Spec == InitMidDay /\ [][Next]_vars

\* The same requests, one after another.
NextSeq ==
  \/ \E r \in FirstSlot :
       \/ NoneRunning /\ StartEndpoint(r)
       \/ NoneRunning /\ StartUpdatePoints(r)
       \/ GateStep(r)
       \/ EndpointStep(r)
       \/ PointsStep(r)
  \/ Midnight
SpecSeq == InitOne /\ [][NextSeq]_vars

\* Concurrent direct calls of the gate on a day under way that may end.
NextDays ==
  \/ \E r \in Slots : StartGateCall(r) \/ InvalidGateCall(r) \/ GateStep(r)
  \/ Midnight
SpecDays == InitMidDay /\ [][NextDays]_vars

\* Requests one after another over a storage layer whose statements may fail.
NextFaulty ==
  \/ \E r \in FirstSlot :
       \/ NoneRunning /\ StartEndpoint(r)
       \/ NoneRunning /\ StartUpdatePoints(r)
       \/ GateStep(r)
       \/ EndpointStep(r)
       \/ PointsStep(r)
       \/ check_and_increment_action_except(r)
       \/ points_storage_error(r)
  \/ Midnight
SpecFaulty == InitMidDay /\ [][NextFaulty]_vars

\* Concurrent direct calls of the gate and /user reads on one day.
NextUser ==
  \E r \in Slots :
    \/ StartGateCall(r)
    \/ StartGetUser(r)
    \/ GateStep(r)
    \/ UserStep(r)
SpecUser == InitMidDay /\ [][NextUser]_vars

\* Two users on one day, alice's record as in InitMidDay and bob's absent.
InitTwoUsers ==
  \E k \in ActionKinds : \E c \in {0, DAILY_LIMITS[k] - 1, DAILY_LIMITS[k]} :
    InitWith(Users, {k}, TablesAfter("alice", k, c), MaxCalls)

\* Concurrent gate calls and /user reads of the two users.
SpecTwoUsers == InitTwoUsers /\ [][NextUser]_vars

\* Both users with some balance, or without a row.
InitBoard ==
  \E rows \in [Users -> {NoRow, <<10>>, <<30>>, <<50>>}] :
    InitWith(Users, ActionKinds, [EmptyDb EXCEPT !.users = rows], MaxCalls)

\* Concurrent /leaderboard requests.
NextBoard == \E r \in Slots : StartLeaderboard(r) \/ BoardStep(r)
SpecBoard == InitBoard /\ [][NextBoard]_vars

\* Concurrent requests to the gated endpoints over a storage layer whose
\* statements may fail inside check_and_increment_action.
NextRollback ==
  \E r \in Slots :
    \/ StartEndpoint(r)
    \/ GateStep(r)
    \/ EndpointStep(r)
    \/ PointsStep(r)
    \/ check_and_increment_action_except(r)
SpecRollback == InitMidDay /\ [][NextRollback]_vars

\* The same from one slot below the limit, with every handler thread
\* scheduled again and again (weak fairness of each request's own steps, the
\* return of its fetch included).
InitLive ==
  InitWith({"alice"}, {"forecast_checks"},
           TablesAfter("alice", "forecast_checks", ForecastLimit - 1), MaxCalls)

SpecLive ==
  /\ InitLive
  /\ [][NextRollback]_vars
  /\ \A r \in Slots : WF_vars(GateStep(r) \/ EndpointStep(r) \/ PointsStep(r))

\* ------------------------------------------------------------- properties
\* The stored counter of kind k in the record of (u, d); 0 without a record.
CounterIn(tables, u, d, k) ==
  IF tables.daily[<<u, d>>] = NoRow THEN 0 ELSE tables.daily[<<u, d>>][Col(k)]
Counter(u, d, k) == CounterIn(db, u, d, k)

\* The stored points of u; 0 without a row.
Balance(u) == IF db.users[u] = NoRow THEN 0 ELSE db.users[u][1]

\* The one user and the one kind of a behaviour whose scope is one of each.
TheUser == CHOOSE u \in scope.users : TRUE
TheKind == CHOOSE k \in scope.kinds : TRUE

\* Request r takes this step.
StepOf(r) == req'[r] # req[r]

\* C1: calls of check_and_increment_action for one (user, kind), one after
\* another within one calendar day: none raises, none is rejected before
\* limit(k) calls have succeeded, none succeeds after that, and between calls
\* the stored counter is the number of successes, so the (limit+1)-th call is
\* rejected with the counter left at limit(k).
C1_SequentialQuota ==
  day = 0 =>
    /\ tally.err = 0
    /\ tally.ok <= DAILY_LIMITS[TheKind]
    /\ tally.rej > 0 => tally.ok = DAILY_LIMITS[TheKind]
    /\ NoneRunning => Counter(TheUser, 0, TheKind) = tally.ok

C1_Witness ==
  /\ day = 0
  /\ TheKind = "carbon_calculations"
  /\ tally.ok = CarbonLimit
  /\ tally.rej = 1
  /\ Counter(TheUser, 0, TheKind) = CarbonLimit

\* C2: limit(k)+ExtraCalls concurrent calls of check_and_increment_action for
\* one (user, kind, day) from a zero counter: once all have returned, exactly
\* limit(k) have succeeded, exactly ExtraCalls were rejected with 429 and the
\* stored counter is limit(k); and no two calls that both read limit(k)-1,
\* and so both return limit(k), succeed.
C2_ConcurrentQuota ==
  LET limit == DAILY_LIMITS[TheKind] IN
  /\ (budget = 0 /\ NoneRunning) =>
       /\ tally.ok = limit
       /\ tally.rej = ExtraCalls
       /\ Counter(TheUser, 0, TheKind) = limit
  /\ \A r1, r2 \in Slots :
       (/\ r1 # r2
        /\ req[r1].status = "returned"
        /\ req[r2].status = "returned"
        /\ req[r1].new_count = limit)
       => req[r2].new_count # limit

\* C3: every stored counter of every DailyActionRecord is at most its limit.
C3_CounterWithinLimit ==
  \A u \in Users, d \in Days, k \in ActionKinds :
    Counter(u, d, k) <= DAILY_LIMITS[k]

\* C4: a call's UPDATE leaves the stored counter at the value the call then
\* returns (its read plus one), and the values returned by the successful
\* calls for one (user, kind, day) are pairwise distinct.
C4_SerialProgression ==
  [][/\ \A r \in Slots :
          (req[r].pc = "cai_update" /\ StepOf(r)) =>
            Counter(req[r].username, req[r].today, req[r].action_type)'
              = req[r].daily_actions[Col(req[r].action_type)] + 1
     /\ \A r1, r2 \in Slots :
          (/\ r1 # r2
           /\ req'[r1].status = "returned"
           /\ req'[r2].status = "returned")
          => req'[r1].new_count # req'[r2].new_count]_vars

\* The steps a request takes up to the limit test of line 110.
GateCheckPcs ==
  {"idle", "done", "gda_today", "gda_insert", "gda_commit", "gda_select",
   "gda_fetch"}

\* The steps of the collaborator call.
FetchPcs == {"fetch", "fetching"}

\* No counter of an existing record changes, and a record that appears has
\* all its counters at 0.
CountersKept ==
  \A key \in Users \X Days :
    IF db.daily[key] # NoRow THEN db'.daily[key] = db.daily[key]
    ELSE db'.daily[key] # NoRow => \A i \in 1..3 : db'.daily[key][i] = 0

\* C5: a request to a gated endpoint that the gate rejects with 429 has not
\* called the collaborator, and none of the steps it took (entry, the
\* get-or-create of the record, the read, the limit test) changed a counter
\* or any user's points.
C5_RejectionChangesNothing ==
  [][\A r \in Slots :
       (StepOf(r) /\ req[r].pc \in GateCheckPcs) =>
         /\ CountersKept
         /\ db'.users = db.users
         /\ req'[r].status = "rejected429" =>
              ~req'[r].called /\ req'[r].data = ""]_vars

C5_Witness ==
  \E r \in Slots :
    /\ req[r].op = "air_quality"
    /\ req[r].status = "rejected429"
    /\ Counter(req[r].username, req[r].today, "aqi_checks") = AqiLimit

\* C6: apart from /update_points, the users table changes only in the write
\* of a request whose gate passed and whose fetch returned no error, only for
\* that request's user, and then the stored points grow by exactly the amount
\* of the request's action kind.
C6_PointsOnlyByAward ==
  [][db'.users # db.users =>
       \E r \in Slots :
         /\ StepOf(r)
         /\ req[r].pc = "pts_write"
         /\ \A u \in Users \ {req[r].username} : db'.users[u] = db.users[u]
         /\ \/ req[r].op = "update_points"
            \/ /\ req[r].new_count >= 1
               /\ req[r].data = "ok"
               /\ Balance(req[r].username)'
                    = Balance(req[r].username) + POINTS[req[r].action_type]]_vars

\* The steps of check_and_increment_action after the limit test.
GateIncrementPcs == {"cai_update", "cai_rowcount", "cai_replace", "cai_commit"}

\* C7: a gated request whose fetch returns an error payload returns that
\* payload (data = "error", no points fields); none of its steps changes the
\* users table, and its last step changes no table; and the slot the gate
\* consumed is not refunded: the stored counter of its kind stays at least
\* the count the gate returned to it (its read plus one).
C7_FailedFetchKeepsQuota ==
  [][\A r \in Slots :
       /\ (/\ StepOf(r)
           /\ req'[r].op \in {"air_quality", "forecast", "carbon"}
           /\ req[r].pc \in GateCheckPcs \cup GateIncrementPcs \cup FetchPcs)
          => db'.users = db.users
       /\ (StepOf(r) /\ req'[r].status = "failed" /\ req'[r].called) =>
            /\ db' = db
            /\ req'[r].new_count = req[r].daily_actions[Col(req[r].action_type)] + 1
       /\ (req'[r].status = "failed" /\ req'[r].called) =>
            /\ req'[r].data = "error"
            /\ req'[r].amount = 0 /\ req'[r].new_points = 0
            /\ CounterIn(db', req'[r].username, req'[r].today,
                         req'[r].action_type) >= req'[r].new_count]_vars

\* C8: every write of a points mutation (an award or an /update_points
\* adjustment) completes without error and adds the request's amount to the
\* balance stored at that moment (0 without a row), so that the final balance
\* is the initial one plus the sum of all amounts.
C8_AtomicAdds ==
  [][\A r \in Slots :
       (StepOf(r) /\ req[r].pc = "pts_write") =>
         /\ req'[r].status # "crashed500"
         /\ Balance(req[r].username)'
              = Balance(req[r].username) + req[r].amount]_vars

\* C9: the stored balance of a user decreases in a step only if the step is
\* the write of an /update_points call with a negative delta; and the write
\* of an award leaves the balance at the balance before it plus the amount.
C9_PointsMonotone ==
  [][/\ \A u \in Users :
          Balance(u)' < Balance(u) =>
            \E r \in Slots :
              /\ StepOf(r)
              /\ req[r].pc = "pts_write"
              /\ req[r].op = "update_points"
              /\ req[r].username = u
              /\ req[r].amount < 0
     /\ \A r \in Slots :
          (/\ StepOf(r)
           /\ req[r].pc = "pts_write"
           /\ req[r].op # "update_points"
           /\ req'[r].status # "crashed500")
          => Balance(req[r].username)'
               = Balance(req[r].username) + req[r].amount]_vars

\* C10: a Completed request of kind k answers points_earned = amount(k),
\* total_points = the balance stored before its write plus amount(k), which
\* is the balance its write stores, and remaining_checks = limit(k) minus the
\* count the gate returned; a request the gate rejects answers with none of
\* these fields.
C10_CompletedResponse ==
  [][\A r \in Slots :
       LET u == req[r].username
           k == req[r].action_type
       IN
       (StepOf(r) /\ req'[r].op \in {"air_quality", "forecast", "carbon"}) =>
         /\ (req[r].pc = "pts_write" /\ req'[r].status # "crashed500") =>
              /\ req[r].new_points = Balance(u) + POINTS[k]
              /\ Balance(u)' = req[r].new_points
         /\ req'[r].status = "completed" =>
              /\ req'[r].amount = POINTS[k]
              /\ req'[r].new_points = req[r].new_points
              /\ req'[r].remaining_checks = DAILY_LIMITS[k] - req[r].new_count
         /\ req'[r].status = "rejected429" =>
              /\ req'[r].amount = 0
              /\ req'[r].new_points = 0
              /\ req'[r].remaining_checks = 0]_vars

\* C11: the collaborator calls started for one (user, kind, day) never exceed
\* limit(k), whatever their outcome and however the requests interleave.
C11_FetchAttemptsCapped ==
  tally.fetches <= DAILY_LIMITS[TheKind]

\* C12: a request that begins on day 1 is judged by the counters of the day-1
\* record, which is created with every counter at 0 whatever the day-0
\* record holds: the counters its limit test passes are those of the day-1
\* record, it is rejected with 429 only when the day-1 counter of its kind
\* has reached the limit, and none of its steps changes a day-0 record.
C12_DayRolloverResets ==
  [][\A r \in Slots :
       (StepOf(r) /\ req'[r].today = 1) =>
         LET u == req'[r].username
             k == req'[r].action_type
         IN
         /\ \A v \in Users : db'.daily[<<v, 0>>] = db.daily[<<v, 0>>]
         /\ (db.daily[<<u, 1>>] = NoRow /\ db'.daily[<<u, 1>>] # NoRow) =>
              db'.daily[<<u, 1>>] = ZeroRow
         /\ req[r].pc = "gda_fetch" =>
              /\ req'[r].pc = "cai_update" =>
                   req'[r].daily_actions = db.daily[<<u, 1>>]
              /\ req'[r].status = "rejected429" =>
                   CounterIn(db, u, 1, k) >= DAILY_LIMITS[k]]_vars

\* C13: a call of check_and_increment_action that read the date on day 0
\* (line 104) and whose get-or-create step read it on day 1 (line 76) writes
\* no counter of a day-0 record and creates no day-0 record.
C13_PastDayUntouched ==
  [][\A r \in Slots :
       (StepOf(r) /\ Running(r) /\ req[r].today = 0 /\ req[r].gda_today = 1) =>
         \A v \in Users : db'.daily[<<v, 0>>] = db.daily[<<v, 0>>]]_vars

\* C14: a call of check_and_increment_action with a kind outside DAILY_LIMITS
\* ends at once with the 400 error and has touched no storage: no record is
\* created, no counter and no points value changes, neither in the working
\* tables nor in the committed ones, and the shared cursor is as it was.
C14_InvalidKindRejected ==
  [][\A r \in Slots :
       (StepOf(r) /\ req'[r].action_type = InvalidKind) =>
         /\ req'[r].pc = "done"
         /\ req'[r].status = "invalid400"
         /\ db' = db
         /\ committed' = committed
         /\ cursor' = cursor]_vars

\* An invalid call made while another call is between its statements.
C14_Witness ==
  \E r, s \in Slots :
    /\ req[r].status = "invalid400"
    /\ req[s].pc = "cai_rowcount"

\* C15: a /carbon request whose activity ACTIVITY_MAP does not hold ends with
\* an error payload without a collaborator request, and none of its steps
\* changes a counter or a points value.
C15_UnsupportedActivityMutatesNothing ==
  [][\A r \in Slots :
       (StepOf(r) /\ req'[r].op = "carbon" /\ ~req'[r].activity_ok) =>
         /\ CountersKept
         /\ db'.users = db.users
         /\ req'[r].pc = "done" =>
              /\ req'[r].status \in {"failed", "rejected429"}
              /\ ~req'[r].called]_vars

\* The statements of the counter mutation and of the points mutation.
MutationPcs ==
  GateIncrementPcs \cup {"pts_select", "pts_fetch", "pts_write", "pts_commit"}

\* C16: when a statement of a counter mutation or of a points mutation
\* fails, the request ends with the internal error and nothing the operation
\* wrote stays behind: the tables are those of the last commit before it,
\* which is left as it was.
C16_StorageErrorRollsBack ==
  [][\A r \in Slots :
       (StepOf(r) /\ req[r].pc \in MutationPcs
                  /\ req'[r].status = "crashed500") =>
         /\ req'[r].pc = "done"
         /\ db' = committed
         /\ committed' = committed]_vars

C18_CountersMonotone ==
  [][\A u \in Users, d \in Days, k \in ActionKinds :
       /\ CounterIn(db', u, d, k) >= Counter(u, d, k)
       /\ CounterIn(db', u, d, k) # Counter(u, d, k) =>
            /\ CounterIn(db', u, d, k) = Counter(u, d, k) + 1
            /\ \E r \in Slots :
                 /\ StepOf(r)
                 /\ req[r].pc \in {"cai_update", "cai_replace"}
                 /\ req[r].username = u
                 /\ req[r].today = d
                 /\ req[r].action_type = k]_vars

\* C19: every stored points value is at least 0.
C19_PointsNonNegative ==
  \A u \in Users : Balance(u) >= 0

\* C20: once a request to a gated endpoint has been through the gate's
\* storage statements and has ended, whatever the outcome of its fetch, a
\* users row exists for its user; and every daily_actions record belongs to a
\* user with a users row.
C20_UserCreatedByGate ==
  /\ \A r \in Slots :
       (/\ req[r].pc = "done"
        /\ req[r].op \in {"air_quality", "forecast", "carbon"}
        /\ req[r].status \in {"completed", "failed", "rejected429"}) =>
         db.users[req[r].username] # NoRow
  /\ NoneRunning =>
       \A u \in Users, d \in Days :
         db.daily[<<u, d>>] # NoRow => db.users[u] # NoRow

\* No request of the same user is or was in another handler slot: whatever
\* runs beside request r belongs to another user.
AloneForUser(r) ==
  \A s \in Slots \ {r} : req[s].username # req[r].username

\* C21: a request of user u that runs beside requests of other users only
\* reads u's rows (the points row and the counters it fetches are the stored
\* ones of u, so it does not raise and is rejected only when u's counter has
\* reached the limit) and writes u's rows only.
C21_CrossUserIndependence ==
  [][\A r \in Slots :
       (StepOf(r) /\ Running(r) /\ AloneForUser(r)) =>
         LET u == req[r].username
             key == <<u, req[r].gda_today>>
         IN
         /\ \A v \in Users \ {u} :
              /\ db'.users[v] = db.users[v]
              /\ \A d \in Days : db'.daily[<<v, d>>] = db.daily[<<v, d>>]
         /\ req[r].pc = "usr_fetch" => req'[r].row = db.users[u]
         /\ req[r].pc = "gda_fetch" =>
              /\ req'[r].status # "crashed500"
              /\ req'[r].pc = "cai_update" =>
                   req'[r].daily_actions = db.daily[key]
              /\ req'[r].status = "served" =>
                   req'[r].daily_actions = db.daily[key]
              /\ req'[r].status = "rejected429" =>
                   CounterIn(db, u, req[r].gda_today, req[r].action_type)
                     >= DAILY_LIMITS[req[r].action_type]]_vars

\* C22: the response of /leaderboard is the stored users with their points,
\* ordered by points descending and cut after LeaderboardLimit entries: each
\* entry's points are at least the next entry's, no user left out has more
\* points than a user listed, and every user is listed while there are at
\* most LeaderboardLimit of them.
C22_LeaderboardOrdered ==
  \A r \in Slots :
    (req[r].op = "leaderboard" /\ req[r].pc = "done") =>
      /\ req[r].status = "listed"
      /\ req[r].board \in LeaderboardRows(db)

\* C23: a request enters its fetch by the commit of its gate increment, with
\* nothing on the connection left uncommitted; while the fetch is in flight
\* the request executes no statement (tables, committed state and cursor are
\* not touched by it); and its points award begins only with the step in
\* which the fetch returns a result.
C23_NothingHeldDuringFetch ==
  [][\A r \in Slots :
       StepOf(r) =>
         /\ (req'[r].pc = "fetch") =>
              /\ req[r].pc = "cai_commit"
              /\ committed' = db'
         /\ req[r].pc \in FetchPcs =>
              /\ db' = db
              /\ committed' = committed
              /\ cursor' = cursor
         /\ (req'[r].pc = "pts_select" /\ req'[r].op # "update_points") =>
              /\ req[r].pc = "fetching"
              /\ req'[r].data = "ok"]_vars

\* A fetch is in flight while another request is inside its points award,
\* between its write and its commit.
C23_Witness ==
  \E r, s \in Slots :
    /\ req[r].pc = "fetching"
    /\ req[s].pc = "pts_commit"
    /\ db # committed

\* C24: no step of a /user request changes an existing points balance or an
\* existing counter; the only rows it creates are the zero-balance row of
\* its user and a zero record; it does not raise; and the points and the
\* counters it answers with are the stored ones of its user (the row it
\* fetches is the user's points row, the counters it fetches are those of
\* the user's record of today).
C24_GetUserReadsOnly ==
  [][\A r \in Slots :
       (StepOf(r) /\ req'[r].op = "get_user") =>
         LET u == req'[r].username IN
         /\ CountersKept
         /\ \A v \in Users :
              IF db.users[v] # NoRow THEN db'.users[v] = db.users[v]
              ELSE db'.users[v] # NoRow => (v = u /\ db'.users[v] = <<0>>)
         /\ req'[r].status # "crashed500"
         /\ req[r].pc = "usr_fetch" => req'[r].row = db.users[u]
         /\ req'[r].status = "served" =>
              /\ db.users[u] # NoRow
              /\ req'[r].daily_actions = db.daily[<<u, req[r].gda_today>>]]_vars

\* C25: the rollback a request issues when a statement of its
\* check_and_increment_action fails undoes nothing another request has
\* written: the users table is as before, and the points that a request
\* between its write and its commit has stored (the total_points it is about
\* to return) are still the stored balance.
C25_RollbackIsolated ==
  [][\A r \in Slots :
       (/\ StepOf(r)
        /\ req[r].pc \in GateIncrementPcs
        /\ req'[r].status = "crashed500") =>
         /\ db'.users = db.users
         /\ \A s \in Slots \ {r} :
              (/\ req[s].pc = "pts_commit"
               /\ Balance(req[s].username) = req[s].new_points) =>
                Balance(req[s].username)' = req[s].new_points]_vars

\* The terminal states of a request to a gated endpoint.
TerminalStatus == {"rejected429", "failed", "completed", "crashed500"}

\* C26: every request to a gated endpoint that has been entered eventually
\* returns, in one of the terminal states: rejected, failed, completed or
\* internal error.
C26_RequestsTerminate ==
  \A r \in Slots :
    Running(r) ~> (req[r].pc = "done" /\ req[r].status \in TerminalStatus)

\* Two requests that ran side by side have ended, one completed and one with
\* the internal error.
C26_Witness ==
  \E r, s \in Slots :
    /\ req[r].pc = "done" /\ req[r].status = "completed"
    /\ req[s].pc = "done" /\ req[s].status = "crashed500"

\* C27: the remaining_checks of every completed response of kind k lies in
\* 0 .. limit(k)-1.
C27_RemainingChecksInRange ==
  \A r \in Slots :
    req[r].status = "completed" =>
      req[r].remaining_checks \in 0..(DAILY_LIMITS[req[r].action_type] - 1)

\* A completed response with remaining_checks 0 while concurrent requests
\* have driven the stored counter beyond the limit.
C27_Witness ==
  \E r \in Slots :
    /\ req[r].status = "completed"
    /\ req[r].remaining_checks = 0
    /\ Counter(req[r].username, req[r].today, req[r].action_type)
         > DAILY_LIMITS[req[r].action_type]

====
